---- MODULE Spec2Model ----
(***************************************************************************)
(* Model of reviewboard/scmtools/tarball.py: the TarballTool adapter and   *)
(* the TarballClient that caches, validates and reads a tar archive.       *)
(*                                                                         *)
(* Python strings that the code inspects (repository paths, local paths)   *)
(* are sequences of one-character strings, so that startswith, replace,    *)
(* basename and join are computed as the code computes them.  Python       *)
(* values returned to a caller are written as strings ("True", "False",    *)
(* "None", "" for the empty content).                                      *)
(***************************************************************************)
EXTENDS Naturals, Sequences, FiniteSets

VARIABLES
    fs,       \* the file system: local path -> "absent" | "dir" | content
    server,   \* the HTTP server: URL -> status or the body of a 200 answer
    pristine, \* history: the environment has not acted since Init
    result,   \* the last operation called, its arguments and its outcome
    race      \* two callers inside is_valid_repository, statement by statement

vars == <<fs, server, pristine, result, race>>

----------------------------------------------------------------------------
(* Python string operations used by the code *)

StartsWith(s, p) ==
    /\ Len(s) >= Len(p)
    /\ SubSeq(s, 1, Len(p)) = p

\* str.replace(old, new): every non-overlapping occurrence, left to right
RECURSIVE Replace(_, _, _)
Replace(s, old, new) ==
    IF s = <<>> THEN <<>>
    ELSE IF StartsWith(s, old)
         THEN new \o Replace(SubSeq(s, Len(old) + 1, Len(s)), old, new)
         ELSE <<Head(s)>> \o Replace(Tail(s), old, new)

\* os.path.basename: what follows the last "/"
RECURSIVE Basename(_)
Basename(s) ==
    IF s = <<>> THEN <<>>
    ELSE IF s[Len(s)] = "/" THEN <<>>
    ELSE Basename(SubSeq(s, 1, Len(s) - 1)) \o <<s[Len(s)]>>

\* os.path.join(a, b)
PathJoin(a, b) ==
    IF StartsWith(b, <<"/">>) THEN b
    ELSE IF a = <<>> \/ a[Len(a)] = "/" THEN a \o b
    ELSE a \o <<"/">> \o b

----------------------------------------------------------------------------
(* Program constants *)

FILE_SCHEME == <<"f", "i", "l", "e", ":", "/", "/">>
HTTP_SCHEME == <<"h", "t", "t", "p", ":", "/", "/">>
DEV_NULL == <<"/", "d", "e", "v", "/", "n", "u", "l", "l">>

TARBALL_LOCAL_CACHE_DIR == <<"/", "t", "m", "p">>

PRE_CREATION == "PRE-CREATION"

PyTrue == "True"
PyFalse == "False"
PyNone == "None"
NoUser == "None"

----------------------------------------------------------------------------
(* The inputs and the environment *)

\* repository paths given to TarballTool / TarballClient
SrcBare == <<"/", "a">>
SrcDir == FILE_SCHEME \o TARBALL_LOCAL_CACHE_DIR
SrcH == HTTP_SCHEME \o <<"h", "/", "a">>
SrcG == HTTP_SCHEME \o <<"g", "/", "a">>

Sources == {SrcBare, SrcDir, SrcH, SrcG}
Users == {NoUser, "u"}
Revisions == {PRE_CREATION, "5"}
MemberPaths == {"m", "x"}

\* file contents: a zero-length file, bytes that are no tar archive, and
\* two tar archives that both hold member "m", with different bytes
Blobs == {"empty", "junk", "tarA", "tarB"}
\* what somebody other than the program stores at a local path
UserBlobs == {"junk", "tarA"}
\* the bodies the server sends with a 200 answer
Bodies == {"tarA", "tarB"}

IsTar(blob) == blob \in {"tarA", "tarB"}

Members(blob) ==
    IF blob = "tarA" THEN [p \in {"m"} |-> "bytesA"]
    ELSE IF blob = "tarB" THEN [p \in {"m"} |-> "bytesB"]
    ELSE [p \in {} |-> ""]

\* what the server answers to a GET: a status, a transport failure, or a body
Responses == {"404", "500", "neterr"} \cup Bodies

----------------------------------------------------------------------------
(* TarballClient *)

\* mutant: the scheme is prefixed without looking at the path
Normalize_AlwaysPrefix(path) == FILE_SCHEME \o path

\* _normalize_tarball_url
Normalize(path) ==
    IF StartsWith(path, FILE_SCHEME) \/ StartsWith(path, HTTP_SCHEME)
    THEN path
    ELSE FILE_SCHEME \o path

\* the fields __init__ sets on a Client
Client(path, username) ==
    LET p == Normalize(path) IN
    [ path |-> p,
      username |-> username,
      tarball_local_path |->
          IF StartsWith(p, FILE_SCHEME)
          THEN Replace(p, FILE_SCHEME, <<>>)
          ELSE PathJoin(TARBALL_LOCAL_CACHE_DIR, Basename(p)) ]

IsRemote(c) == StartsWith(c.path, HTTP_SCHEME)

Urls == {Normalize(s) : s \in {t \in Sources : StartsWith(t, HTTP_SCHEME)}}

LocalPaths ==
    {Client(s, NoUser).tarball_local_path : s \in Sources}
        \cup {TARBALL_LOCAL_CACHE_DIR}

\* the Clients the callers of the model construct
Clients == [s \in Sources, u \in Users |-> Client(s, u)]

\* os.path.exists
Exists(f, p) == f[p] # "absent"

\* outcomes of a call
Return(v) == [kind |-> "return", val |-> v, args |-> <<>>]
Raise(e, a) == [kind |-> "raise", val |-> e, args |-> a]
NoOutcome == [kind |-> "none", val |-> PyNone, args |-> <<>>]

\* names a TarballClient instance resolves: the methods and fields of the
\* class and of its base SCMClient (path, username, password, get_file_http)
ClientAttrs ==
    { "__init__", "is_valid_repository", "get_file", "get_file_exists",
      "_cache_remote_tarball", "_is_valid_tarfile", "_normalize_tarball_url",
      "TARBALL_LOCAL_CACHE_DIR", "encoding", "local_site_name",
      "tarball_local_path", "path", "username", "password", "get_file_http" }

\* module-level names of the imported tarfile module that matter here
\* (extractfile is a method of an opened TarFile, not of the module)
TarfileModuleAttrs == {"open", "is_tarfile", "TarFile", "TarInfo"}

\* names bound at module level by the imports (base64 is not imported)
ModuleGlobals ==
    { "logging", "os", "re", "platform", "tarfile", "six", "HTTPError",
      "urlquote", "URLRequest", "urlopen" }

\* mutant: the file is written elsewhere and appears at its path when complete
OpenForWrite_Elsewhere(f, p) == f

\* open(path, 'w'): the file exists and is empty once the call returns
OpenForWrite(f, p) == [f EXCEPT ![p] = "empty"]

\* mutant: the cache-fill downloads again although the file is cached
CacheRemoteTarball_AlwaysFetch(c, f, srv) ==
    IF srv[c.path] \in Bodies
    THEN [fs |-> [f EXCEPT ![c.tarball_local_path] = srv[c.path]],
          out |-> Return(PyNone), gets |-> 1, unclosed |-> {"response"}]
    ELSE [fs |-> OpenForWrite(f, c.tarball_local_path),
          out |-> Raise("SCMError", <<"Unexpected error", c.path>>),
          gets |-> 1, unclosed |-> {}]

\* _cache_remote_tarball: [fs, out, gets, unclosed], unclosed the handles the
\* call has acquired and neither closes nor opens in a with statement (the
\* cache file is opened in one; the response of urlopen is not closed)
CacheRemoteTarball(c, f, srv) ==
    LET lp == c.tarball_local_path
        created == OpenForWrite(f, lp)
        msg(kind) == <<kind, c.path>>
    IN
    IF Exists(f, lp)
    THEN [fs |-> f, out |-> Return(PyNone), gets |-> 0, unclosed |-> {}]
    ELSE IF c.username # NoUser /\ "base64" \notin ModuleGlobals
    THEN \* NameError, caught by "except Exception"
         [fs |-> f, out |-> Raise("SCMError", msg("Unexpected error")),
          gets |-> 0, unclosed |-> {}]
    ELSE \* open(..., 'w') has created the file when urlopen is called
         IF srv[c.path] = "404"
         THEN [fs |-> created, out |-> Raise("FileNotFoundError", <<c.path>>),
               gets |-> 1, unclosed |-> {}]
         ELSE IF srv[c.path] = "500"
         THEN [fs |-> created, out |-> Raise("SCMError", msg("HTTP error code")),
               gets |-> 1, unclosed |-> {}]
         ELSE IF srv[c.path] = "neterr"
         THEN [fs |-> created, out |-> Raise("SCMError", msg("Unexpected error")),
               gets |-> 1, unclosed |-> {}]
         ELSE [fs |-> [f EXCEPT ![lp] = srv[c.path]], out |-> Return(PyNone),
               gets |-> 1, unclosed |-> {"response"}]

\* mutant: the file that does not open as an archive is left in place
IsValidTarfile_KeepsFile(c, f) ==
    IF f[c.tarball_local_path] \in Blobs /\ IsTar(f[c.tarball_local_path])
    THEN [fs |-> f, out |-> Return(PyTrue), unclosed |-> {"archive"}]
    ELSE [fs |-> f, out |-> Return(PyFalse), unclosed |-> {}]

\* _is_valid_tarfile: [fs, out, unclosed]; the archive tarfile.open returns
\* is bound to no name and never closed
IsValidTarfile(c, f) ==
    LET lp == c.tarball_local_path IN
    IF f[lp] \in Blobs /\ IsTar(f[lp])
    THEN [fs |-> f, out |-> Return(PyTrue), unclosed |-> {"archive"}]
    ELSE \* tarfile.open raised; os.remove(lp)
         IF f[lp] \in Blobs
         THEN [fs |-> [f EXCEPT ![lp] = "absent"], out |-> Return(PyFalse),
               unclosed |-> {}]
         ELSE [fs |-> f, out |-> Raise("OSError", <<lp>>), unclosed |-> {}]

\* is_valid_repository: [fs, out, gets, unclosed]
IsValidRepository(c, f, srv) ==
    LET fill == IF IsRemote(c)
                THEN CacheRemoteTarball(c, f, srv)
                ELSE [fs |-> f, out |-> Return(PyNone), gets |-> 0,
                      unclosed |-> {}]
    IN
    IF fill.out.kind = "raise"
    THEN [fs |-> fill.fs, out |-> Return(PyFalse), gets |-> fill.gets,
          unclosed |-> fill.unclosed]
    ELSE IF ~Exists(fill.fs, c.tarball_local_path)
    THEN [fs |-> fill.fs, out |-> Return(PyFalse), gets |-> fill.gets,
          unclosed |-> fill.unclosed]
    ELSE LET v == IsValidTarfile(c, fill.fs) IN
         [fs |-> v.fs, out |-> v.out, gets |-> fill.gets,
          unclosed |-> fill.unclosed \cup v.unclosed]

\* get_file: the outcome (the file system is not written).  The call of
\* line 157 and the attribute of line 159 resolve on the instance, the call
\* of line 164 on the tarfile module.
GetFile(c, f, path, revision) ==
    LET lp == c.tarball_local_path IN
    IF "_open_tarfile" \notin ClientAttrs
    THEN Raise("AttributeError", <<"_open_tarfile">>)
    ELSE IF "tarfile" \notin ClientAttrs
    THEN Raise("AttributeError", <<"tarfile">>)
    ELSE IF path \notin DOMAIN Members(f[lp])
    THEN \* getmember raised KeyError
         Raise("FileNotFoundError", <<path, revision>>)
    ELSE IF "extractfile" \notin TarfileModuleAttrs
    THEN Raise("AttributeError", <<"extractfile">>)
    ELSE Return(Members(f[lp])[path])

\* mutant: only a missing member is reported as non-existence
GetFileExists_NarrowCatch(c, f, path, revision) ==
    LET r == GetFile(c, f, path, revision) IN
    [ out |-> IF r.kind = "raise" /\ r.val = "FileNotFoundError"
              THEN Return(PyFalse)
              ELSE IF r.kind = "raise" THEN r ELSE Return(PyTrue),
      inner |-> r ]

\* get_file_exists: [out, inner], inner the outcome of the read it attempts
GetFileExists(c, f, path, revision) ==
    LET r == GetFile(c, f, path, revision) IN
    [ out |-> IF r.kind = "raise" THEN Return(PyFalse) ELSE Return(PyTrue),
      inner |-> r ]

----------------------------------------------------------------------------
(* TarballTool *)

\* mutant: the PRE_CREATION revision is read like any other
ToolGetFile_NoSentinel(c, f, path, revision) ==
    [out |-> GetFile(c, f, path, revision), calls |-> {"get_file"}]

\* TarballTool.get_file: [out, calls]
ToolGetFile(c, f, path, revision) ==
    IF revision = PRE_CREATION
    THEN [out |-> Return(""), calls |-> {}]
    ELSE [out |-> GetFile(c, f, path, revision), calls |-> {"get_file"}]

\* mutant: probes with the read itself, turning only the two typed errors
\* into false
ToolFileExists_ReadsDirectly(c, f, path, revision) ==
    IF revision = PRE_CREATION
    THEN [out |-> Return(PyFalse), calls |-> {}, inner |-> NoOutcome]
    ELSE LET r == GetFile(c, f, path, revision) IN
         [ out |-> IF r.kind = "raise"
                      /\ r.val \in {"FileNotFoundError",
                                    "InvalidRevisionFormatError"}
                   THEN Return(PyFalse)
                   ELSE IF r.kind = "raise" THEN r ELSE Return(PyTrue),
           calls |-> {"get_file"},
           inner |-> r ]

\* TarballTool.file_exists: [out, calls, inner]
ToolFileExists(c, f, path, revision) ==
    IF revision = PRE_CREATION
    THEN [out |-> Return(PyFalse), calls |-> {}, inner |-> NoOutcome]
    ELSE LET r == GetFileExists(c, f, path, revision) IN
         [ out |-> IF r.out.kind = "raise"
                      /\ r.out.val \in {"FileNotFoundError",
                                        "InvalidRevisionFormatError"}
                   THEN Return(PyFalse)
                   ELSE r.out,
           calls |-> {"get_file_exists", "get_file"},
           inner |-> r.inner ]

\* mutant: every path under /dev/null counts as the sentinel path
ParseDiffRevision_PrefixMatch(file_str, revision_str, moved, copied) ==
    <<file_str,
      IF StartsWith(file_str, DEV_NULL) THEN PRE_CREATION ELSE revision_str>>

\* TarballTool.parse_diff_revision: the pair it returns
ParseDiffRevision(file_str, revision_str, moved, copied) ==
    <<file_str, IF file_str = DEV_NULL THEN PRE_CREATION ELSE revision_str>>

\* TarballTool.check_repository: [fs, out, gets, unclosed]
ToolCheckRepository(path, f, srv, tar_in_path) ==
    IF ~tar_in_path
    THEN [fs |-> f, out |-> Raise("ImportError", <<>>), gets |-> 0,
          unclosed |-> {}]
    ELSE LET v == IsValidRepository(Clients[path, NoUser], f, srv) IN
         IF v.out.kind = "return" /\ v.out.val = PyFalse
         THEN [v EXCEPT !.out = Raise("RepositoryNotFoundError", <<>>)]
         ELSE IF v.out.kind = "return"
         THEN [v EXCEPT !.out = Return(PyNone)]
         ELSE v

----------------------------------------------------------------------------
(* The state machine: one action per operation a caller can invoke *)

\* open: the handles the call acquired that are still open when it is over
Call(op, src, user, path, rev, pre, out, gets, calls, inner, open) ==
    [ op |-> op, src |-> src, user |-> user, path |-> path, rev |-> rev,
      pre |-> pre, out |-> out, gets |-> gets, calls |-> calls,
      inner |-> inner, open |-> open ]

NoCall ==
    Call("none", <<>>, NoUser, "", "", "absent", NoOutcome, 0, {}, NoOutcome,
         {})

\* A handle the code does not close is closed when the interpreter frees the
\* object: at once under reference counting, at some later collection
\* otherwise.  collected tells whether that has happened when the call is
\* over.
StillOpen(unclosed, collected) == IF collected THEN {} ELSE unclosed

\* the two callers of the statement-level specification, both with a
\* Client of the same remote source and without credentials
Callers == {"c1", "c2"}
RaceClient == Clients[SrcH, NoUser]

\* per caller: pc, the statement it is at; skipped, it found the file cached
\* at line 180; linked, the file it opened at line 193 is still the one at
\* the cache path; body, what urlopen(...).read() gave it; saw, what was at
\* the cache path when it called tarfile.open; out, its outcome
RaceIdle ==
    [ pc |-> [i \in Callers |-> "idle"],
      skipped |-> [i \in Callers |-> FALSE],
      linked |-> [i \in Callers |-> FALSE],
      body |-> [i \in Callers |-> "none"],
      saw |-> [i \in Callers |-> "none"],
      out |-> [i \in Callers |-> NoOutcome] ]

Init ==
    /\ fs = [p \in LocalPaths |->
                IF p = TARBALL_LOCAL_CACHE_DIR THEN "dir" ELSE "absent"]
    /\ server \in [Urls -> Responses]
    /\ pristine = TRUE
    /\ result = NoCall
    /\ race = RaceIdle

\* the environment: the server's answer to a URL changes
ServerChange ==
    \E u \in Urls, r \in Responses :
        /\ server[u] # r
        /\ server' = [server EXCEPT ![u] = r]
        /\ pristine' = FALSE
        /\ result' = NoCall
        /\ UNCHANGED <<fs, race>>

\* the environment: somebody stores a file at a local path, or removes one
FileChange ==
    \E p \in LocalPaths, b \in UserBlobs \cup {"absent"} :
        /\ fs[p] # "dir"
        /\ fs[p] # b
        /\ fs' = [fs EXCEPT ![p] = b]
        /\ pristine' = FALSE
        /\ result' = NoCall
        /\ UNCHANGED <<server, race>>

ClientIsValidRepository ==
    \E s \in Sources, u \in Users, collected \in BOOLEAN :
        LET c == Clients[s, u]
            v == IsValidRepository(c, fs, server)
        IN
        /\ fs' = v.fs
        /\ result' = Call("is_valid_repository", s, u, "", "",
                          fs[c.tarball_local_path], v.out, v.gets, {},
                          NoOutcome, StillOpen(v.unclosed, collected))
        /\ UNCHANGED <<server, pristine, race>>

\* a direct call of the cache-fill, on a Client of a remote source
ClientCacheRemoteTarball ==
    \E s \in Sources, u \in Users, collected \in BOOLEAN :
        LET c == Clients[s, u]
            v == CacheRemoteTarball(c, fs, server)
        IN
        /\ IsRemote(c)
        /\ fs' = v.fs
        /\ result' = Call("_cache_remote_tarball", s, u, "", "",
                          fs[c.tarball_local_path], v.out, v.gets, {},
                          NoOutcome, StillOpen(v.unclosed, collected))
        /\ UNCHANGED <<server, pristine, race>>

\* the reads: credentials play no part in them
ClientGetFile ==
    \E s \in Sources, p \in MemberPaths, r \in Revisions :
        LET c == Clients[s, NoUser] IN
        /\ result' = Call("client.get_file", s, NoUser, p, r,
                          fs[c.tarball_local_path], GetFile(c, fs, p, r), 0,
                          {}, NoOutcome, {})
        /\ UNCHANGED <<fs, server, pristine, race>>

ClientGetFileExists ==
    \E s \in Sources, p \in MemberPaths, r \in Revisions :
        LET c == Clients[s, NoUser]
            v == GetFileExists(c, fs, p, r)
        IN
        /\ result' = Call("client.get_file_exists", s, NoUser, p, r,
                          fs[c.tarball_local_path], v.out, 0, {}, v.inner,
                          {})
        /\ UNCHANGED <<fs, server, pristine, race>>

TarballToolGetFile ==
    \E s \in Sources, p \in MemberPaths, r \in Revisions :
        LET c == Clients[s, NoUser]
            v == ToolGetFile(c, fs, p, r)
        IN
        /\ result' = Call("tool.get_file", s, NoUser, p, r,
                          fs[c.tarball_local_path], v.out, 0, v.calls,
                          NoOutcome, {})
        /\ UNCHANGED <<fs, server, pristine, race>>

TarballToolFileExists ==
    \E s \in Sources, p \in MemberPaths, r \in Revisions :
        LET c == Clients[s, NoUser]
            v == ToolFileExists(c, fs, p, r)
        IN
        /\ result' = Call("tool.file_exists", s, NoUser, p, r,
                          fs[c.tarball_local_path], v.out, 0, v.calls,
                          v.inner, {})
        /\ UNCHANGED <<fs, server, pristine, race>>

TarballToolCheckRepository ==
    \E s \in Sources, tar_in_path \in BOOLEAN, collected \in BOOLEAN :
        LET c == Clients[s, NoUser]
            v == ToolCheckRepository(s, fs, server, tar_in_path)
        IN
        /\ fs' = v.fs
        /\ result' = Call("tool.check_repository", s, NoUser, "", "",
                          fs[c.tarball_local_path], v.out, v.gets, {},
                          NoOutcome, StillOpen(v.unclosed, collected))
        /\ UNCHANGED <<server, pristine, race>>

Next ==
    \/ ServerChange
    \/ FileChange
    \/ ClientIsValidRepository
    \/ ClientCacheRemoteTarball
    \/ ClientGetFile
    \/ ClientGetFileExists
    \/ TarballToolGetFile
    \/ TarballToolFileExists
    \/ TarballToolCheckRepository

Spec == Init /\ [][Next]_vars

----------------------------------------------------------------------------
(* The pure functions, applied to inputs drawn from bounded sets *)

MaxTail == 2

RECURSIVE SeqsUpTo(_, _)
SeqsUpTo(chars, n) ==
    IF n = 0 THEN {<<>>}
    ELSE LET shorter == SeqsUpTo(chars, n - 1) IN
         shorter \cup {<<ch>> \o t : ch \in chars, t \in shorter}

\* paths: nothing, a scheme, a scheme cut short, another scheme or /dev/null,
\* followed by up to MaxTail characters
PathPrefixes ==
    { <<>>, FILE_SCHEME, HTTP_SCHEME, SubSeq(FILE_SCHEME, 1, 6),
      <<"h", "t", "t", "p", "s", ":", "/", "/">>, DEV_NULL }

InputPaths ==
    {p \o t : p \in PathPrefixes, t \in SeqsUpTo({"/", "a"}, MaxTail)}

PureCall(op, args, out) == [NoCall EXCEPT !.op = op, !.src = args, !.out = out]

InitPure ==
    /\ fs = [p \in LocalPaths |->
                IF p = TARBALL_LOCAL_CACHE_DIR THEN "dir" ELSE "absent"]
    /\ server = [u \in Urls |-> "404"]
    /\ pristine = TRUE
    /\ result = NoCall
    /\ race = RaceIdle

TarballToolParseDiffRevision ==
    \E file_str \in InputPaths, revision_str \in Revisions \cup {"HEAD"},
       moved \in BOOLEAN, copied \in BOOLEAN :
        /\ result' = PureCall("tool.parse_diff_revision",
                              <<file_str, revision_str, moved, copied>>,
                              Return(ParseDiffRevision(file_str, revision_str,
                                                       moved, copied)))
        /\ UNCHANGED <<fs, server, pristine, race>>

ClientNormalizeTarballUrl ==
    \E path \in InputPaths :
        /\ result' = PureCall("_normalize_tarball_url", <<path>>,
                              Return(Normalize(path)))
        /\ UNCHANGED <<fs, server, pristine, race>>

NextPure ==
    \/ TarballToolParseDiffRevision
    \/ ClientNormalizeTarballUrl

SpecPure == InitPure /\ [][NextPure]_vars

----------------------------------------------------------------------------
(* is_valid_repository of a remote source, one statement at a time, called  *)
(* by two callers whose statements interleave                              *)

RacePath == RaceClient.tarball_local_path

\* a caller calls is_valid_repository (line 143: the source is remote)
RaceCall(i) ==
    /\ race.pc[i] \in {"idle", "done"}
    /\ race' = [race EXCEPT !.pc[i] = "check", !.skipped[i] = FALSE,
                            !.linked[i] = FALSE, !.body[i] = "none",
                            !.saw[i] = "none", !.out[i] = NoOutcome]
    /\ UNCHANGED fs

\* line 180: os.path.exists in _cache_remote_tarball
RaceCheck(i) ==
    /\ race.pc[i] = "check"
    /\ race' = IF Exists(fs, RacePath)
               THEN [race EXCEPT !.pc[i] = "exists", !.skipped[i] = TRUE]
               ELSE [race EXCEPT !.pc[i] = "open"]
    /\ UNCHANGED fs

\* line 193: open(self.tarball_local_path, 'w')
RaceOpen(i) ==
    /\ race.pc[i] = "open"
    /\ fs' = OpenForWrite(fs, RacePath)
    /\ race' = [race EXCEPT !.pc[i] = "fetch", !.linked[i] = TRUE]

\* line 194: urlopen(request).read(); a failure leaves the with statement
\* and is_valid_repository returns False (lines 146-149)
RaceFetch(i) ==
    /\ race.pc[i] = "fetch"
    /\ race' = IF server[RaceClient.path] \in Bodies
               THEN [race EXCEPT !.pc[i] = "write",
                                 !.body[i] = server[RaceClient.path]]
               ELSE [race EXCEPT !.pc[i] = "done",
                                 !.out[i] = Return(PyFalse)]
    /\ UNCHANGED fs

\* lines 195-196: tarball.write(tarball_data), and the file is closed; the
\* bytes reach the cache path only if the opened file is still the one there
RaceWrite(i) ==
    /\ race.pc[i] = "write"
    /\ fs' = IF race.linked[i]
             THEN [fs EXCEPT ![RacePath] = race.body[i]]
             ELSE fs
    /\ race' = [race EXCEPT !.pc[i] = "exists"]

\* line 150: os.path.exists in is_valid_repository
RaceExists(i) ==
    /\ race.pc[i] = "exists"
    /\ race' = IF Exists(fs, RacePath)
               THEN [race EXCEPT !.pc[i] = "validate"]
               ELSE [race EXCEPT !.pc[i] = "done",
                                 !.out[i] = Return(PyFalse)]
    /\ UNCHANGED fs

\* line 213: tarfile.open(self.tarball_local_path, mode='r')
RaceValidate(i) ==
    /\ race.pc[i] = "validate"
    /\ race' = IF fs[RacePath] \in Blobs /\ IsTar(fs[RacePath])
               THEN [race EXCEPT !.pc[i] = "done", !.saw[i] = fs[RacePath],
                                 !.out[i] = Return(PyTrue)]
               ELSE [race EXCEPT !.pc[i] = "remove", !.saw[i] = fs[RacePath]]
    /\ UNCHANGED fs

\* lines 217-218: os.remove(self.tarball_local_path); return False
RaceRemove(i) ==
    /\ race.pc[i] = "remove"
    /\ IF Exists(fs, RacePath)
       THEN /\ fs' = [fs EXCEPT ![RacePath] = "absent"]
            /\ race' = [race EXCEPT !.pc[i] = "done",
                                    !.out[i] = Return(PyFalse),
                                    !.linked = [j \in Callers |-> FALSE]]
       ELSE /\ fs' = fs
            /\ race' = [race EXCEPT !.pc[i] = "done",
                                    !.out[i] = Raise("OSError", <<RacePath>>)]

NextRace ==
    \E i \in Callers :
        /\ \/ RaceCall(i)
           \/ RaceCheck(i)
           \/ RaceOpen(i)
           \/ RaceFetch(i)
           \/ RaceWrite(i)
           \/ RaceExists(i)
           \/ RaceValidate(i)
           \/ RaceRemove(i)
        /\ UNCHANGED <<server, pristine, result>>

SpecRace == Init /\ [][NextRace]_vars

----------------------------------------------------------------------------
TypeOK ==
    /\ fs \in [LocalPaths -> Blobs \cup {"absent", "dir"}]
    /\ server \in [Urls -> Responses]
    /\ pristine \in BOOLEAN
    /\ result.out.kind \in {"none", "return", "raise"}
    /\ race.pc \in [Callers -> {"idle", "check", "open", "fetch", "write",
                                 "exists", "validate", "remove", "done"}]

----------------------------------------------------------------------------
(* The claims.  In a state reached by a call, result.pre is what was at    *)
(* the Client's local archive path when the call was made, and fs is the   *)
(* file system the call has left.                                          *)

\* the Client of the last call (defined when result.op # "none")
Caller == Clients[result.src, result.user]

IsClientRead == result.op = "client.get_file"
IsToolRead == result.op = "tool.get_file" /\ result.rev # PRE_CREATION
ValidArchiveBefore == result.pre \in Blobs /\ IsTar(result.pre)

\* C1: with a valid archive at the local archive path that holds member p
\* with bytes b, TarballClient.get_file(p, r) returns b for every r, and
\* TarballTool.get_file(p, r) returns b for every r other than PRE_CREATION.
C1_GetFileReturnsMemberBytes ==
    (IsClientRead \/ IsToolRead)
        /\ ValidArchiveBefore
        /\ result.path \in DOMAIN Members(result.pre)
    => result.out = Return(Members(result.pre)[result.path])

\* C2: with a valid archive at the local archive path that has no member p,
\* TarballClient.get_file(p, r) raises FileNotFoundError(p, r) and no other
\* error, and TarballTool.get_file(p, r), r not PRE_CREATION, propagates it.
C2_MissingMemberRaisesFileNotFound ==
    (IsClientRead \/ IsToolRead)
        /\ ValidArchiveBefore
        /\ result.path \notin DOMAIN Members(result.pre)
    => result.out = Raise("FileNotFoundError", <<result.path, result.rev>>)

\* C3: a file read (revision other than PRE_CREATION) on a Client of a
\* remote source whose cache file is absent first downloads the source into
\* the cache file, and only then opens the archive.
C3_ReadFillsCacheFirst ==
    (IsClientRead \/ IsToolRead)
        /\ result.rev # PRE_CREATION
        /\ IsRemote(Caller)
        /\ result.pre = "absent"
    => /\ result.gets = 1
       /\ Exists(fs, Caller.tarball_local_path)

\* C4: for every path and every state of archive and cache,
\* TarballTool.get_file(path, PRE_CREATION) returns the empty content and
\* TarballTool.file_exists(path, PRE_CREATION) returns false, without
\* raising and without calling a Client operation.
C4_PreCreationShortCircuit ==
    /\ result.op = "tool.get_file" /\ result.rev = PRE_CREATION
       => result.out = Return("") /\ result.calls = {}
    /\ result.op = "tool.file_exists" /\ result.rev = PRE_CREATION
       => result.out = Return(PyFalse) /\ result.calls = {}

C4_Witness ==
    /\ result.op = "tool.get_file"
    /\ result.rev = PRE_CREATION
    /\ result.path = "m"
    /\ result.pre = "tarA"
    /\ result.out = Return("")

\* C5: TarballClient.is_valid_repository is a total predicate: in every
\* state of the server and of the local files it returns true or false and
\* never raises.
C5_IsValidRepositoryTotal ==
    result.op = "is_valid_repository"
    => result.out.kind = "return" /\ result.out.val \in {PyTrue, PyFalse}

\* C6: if the file at the local archive path exists when
\* is_valid_repository is called and cannot be opened as a tar archive, the
\* call returns false and on return no file is left at that path.
C6_CorruptFileRemoved ==
    result.op = "is_valid_repository"
        /\ result.pre \in Blobs
        /\ ~IsTar(result.pre)
    => /\ result.out = Return(PyFalse)
       /\ fs[Caller.tarball_local_path] = "absent"

C6_Witness ==
    /\ result.op = "is_valid_repository"
    /\ IsRemote(Caller)
    /\ result.pre = "junk"
    /\ result.out = Return(PyFalse)
    /\ fs[Caller.tarball_local_path] = "absent"

\* C7: when the server answers every GET with 404 and the archive was never
\* downloaded, every direct call of the cache-fill, the first and each later
\* one, raises FileNotFoundError carrying the source URL.
C7_CacheFill404AlwaysNotFound ==
    result.op = "_cache_remote_tarball"
        /\ pristine
        /\ (\A u \in Urls : server[u] = "404")
    => result.out = Raise("FileNotFoundError", <<Caller.path>>)

\* C8: TarballClient.get_file_exists returns a boolean for every path,
\* revision and state of the archive, never raises, and returns false
\* whenever the read it attempts fails, whatever the error.
C8_GetFileExistsTotal ==
    result.op = "client.get_file_exists"
    => /\ result.out.kind = "return"
       /\ result.out.val \in {PyTrue, PyFalse}
       /\ result.inner.kind = "raise" => result.out = Return(PyFalse)

C8_Witness ==
    /\ result.op = "client.get_file_exists"
    /\ result.inner.kind = "raise"
    /\ result.inner.val \notin {"FileNotFoundError",
                                "InvalidRevisionFormatError"}
    /\ result.out = Return(PyFalse)

\* C9 as stated: TarballTool.file_exists with a revision other than
\* PRE_CREATION returns false when the read fails with a not-found or
\* invalid-revision error, and lets any other error of the read propagate.
C9_OtherErrorsPropagate ==
    result.op = "tool.file_exists"
        /\ result.rev # PRE_CREATION
        /\ result.inner.kind = "raise"
    => IF result.inner.val \in {"FileNotFoundError",
                                "InvalidRevisionFormatError"}
       THEN result.out = Return(PyFalse)
       ELSE result.out = result.inner

\* C9 as amended: TarballTool.file_exists with a revision other than
\* PRE_CREATION returns false when the read fails with any error; no error
\* raised during the read reaches its caller.
C9_AnyReadErrorIsFalse ==
    result.op = "tool.file_exists"
        /\ result.rev # PRE_CREATION
        /\ result.inner.kind = "raise"
    => result.out = Return(PyFalse)

C9_Witness ==
    /\ result.op = "tool.file_exists"
    /\ result.rev # PRE_CREATION
    /\ result.pre = "tarA"
    /\ result.inner.kind = "raise"
    /\ result.inner.val = "AttributeError"
    /\ result.out = Return(PyFalse)

\* C10: TarballTool.check_repository is a probe: for a local source,
\* whatever is at the source path, after the call returns or raises the
\* path holds what it held before the call.
C10_CheckRepositoryLeavesLocalFile ==
    result.op = "tool.check_repository" /\ ~IsRemote(Caller)
    => fs[Caller.tarball_local_path] = result.pre

IsCacheFill == result.op = "_cache_remote_tarball"
IsValidityCheck == result.op = "is_valid_repository"

\* C11: when the cache file exists, the cache-fill is a no-op: it issues no
\* GET, leaves the file's content as it was and raises nothing, whatever the
\* server would answer; so is_valid_repository never refreshes a cache file
\* that is a valid archive.
C11_CachedFileNeverRefetched ==
    /\ IsCacheFill /\ result.pre # "absent"
       => /\ result.gets = 0
          /\ result.out = Return(PyNone)
          /\ fs[Caller.tarball_local_path] = result.pre
    /\ IsValidityCheck /\ IsRemote(Caller) /\ ValidArchiveBefore
       => /\ result.gets = 0
          /\ result.out = Return(PyTrue)
          /\ fs[Caller.tarball_local_path] = result.pre

C11_Witness ==
    /\ IsValidityCheck
    /\ IsRemote(Caller)
    /\ result.pre = "tarA"
    /\ server[Caller.path] = "tarB"
    /\ fs[Caller.tarball_local_path] = "tarA"
    /\ result.gets = 0

\* C12: with the cache file absent and the server answering the GET with
\* body B, the cache-fill issues one GET and on return the cache file holds
\* exactly B, with credentials supplied to the Client and without.
C12_CacheFillStoresBody ==
    IsCacheFill
        /\ result.pre = "absent"
        /\ server[Caller.path] \in Bodies
    => /\ result.gets = 1
       /\ result.out = Return(PyNone)
       /\ fs[Caller.tarball_local_path] = server[Caller.path]

\* C17: with a valid archive at the local archive path that holds member p,
\* TarballClient.get_file_exists(p, r) returns true for every r, and so does
\* TarballTool.file_exists(p, r) for every r other than PRE_CREATION.
C17_ExistingMemberExists ==
    ( \/ result.op = "client.get_file_exists"
      \/ result.op = "tool.file_exists" /\ result.rev # PRE_CREATION )
        /\ ValidArchiveBefore
        /\ result.path \in DOMAIN Members(result.pre)
    => result.out = Return(PyTrue)

\* the cache paths of the remote sources
CachePaths == {Clients[s, NoUser].tarball_local_path : s \in Urls}

\* C18: with one caller, a cache file that exists holds the complete body
\* of a successful GET; in particular a cache-fill that ends with an error
\* leaves no file at the cache path.
C18_CacheHoldsCompleteBody ==
    /\ pristine => \A p \in CachePaths : fs[p] \in Bodies \cup {"absent"}
    /\ IsCacheFill /\ result.out.kind = "raise"
       => fs[Caller.tarball_local_path] = "absent"

\* C19: for two Clients with distinct remote source URLs, also when both
\* URLs end in the same basename, the archive a Client finds valid at its
\* tarball_local_path was downloaded from that Client's own URL.  (While
\* the environment has not acted, every file at a cache path was downloaded
\* by the program and the server's answers are those of the downloads.)
C19_ClientsIsolated ==
    pristine
        /\ IsValidityCheck
        /\ IsRemote(Caller)
        /\ result.out = Return(PyTrue)
    => fs[Caller.tarball_local_path] = server[Caller.path]

\* C13: every handle a Client operation acquires (the opened archive, the
\* HTTP response, the opened cache file) is released by the time the
\* operation returns or raises: no completed call leaves a handle open.
C13_NoHandleLeftOpen ==
    result.op # "none" => result.open = {}

\* C16: after an is_valid_repository call on a Client of a remote source has
\* found a corrupt cache file, deleted it and returned false, the next
\* is_valid_repository call on that source issues a fresh GET, and if the
\* server then returns a valid archive that call returns true with the
\* archive stored at the cache path.
C16_HealedAfter ==
    /\ IsValidityCheck
    /\ IsRemote(Caller)
    /\ result.pre \in Blobs
    /\ ~IsTar(result.pre)
    /\ result.out = Return(PyFalse)

C16_SelfHealingRetry ==
    [][ C16_HealedAfter
            /\ result'.op = "is_valid_repository"
            /\ result'.src = result.src
            /\ result'.user = result.user
            /\ server[Caller.path] \in Bodies
        => /\ result'.gets = 1
           /\ result'.out = Return(PyTrue)
           /\ fs'[Caller.tarball_local_path] = server[Caller.path] ]_vars

\* C14: TarballTool.parse_diff_revision(file_str, revision_str) returns
\* file_str unchanged, together with PRE_CREATION when file_str is exactly
\* "/dev/null" and with revision_str unchanged for every other file_str;
\* moved and copied do not affect the result.
C14_ParseDiffRevision ==
    result.op = "tool.parse_diff_revision"
    => /\ result.out.kind = "return"
       /\ result.out.val[1] = result.src[1]
       /\ result.src[1] = DEV_NULL => result.out.val[2] = PRE_CREATION
       /\ result.src[1] # DEV_NULL => result.out.val[2] = result.src[2]

C14_Witness ==
    /\ result.op = "tool.parse_diff_revision"
    /\ result.src[1] = DEV_NULL \o <<"/", "a">>
    /\ result.src[2] = "5"
    /\ result.src[3] = TRUE
    /\ result.out.val = <<DEV_NULL \o <<"/", "a">>, "5">>

\* C15: _normalize_tarball_url is total and idempotent: a path that starts
\* with file:// or http:// is returned unchanged, every other path x is
\* returned as "file://" followed by x, so the result always starts with
\* file:// or http:// and normalizing it again changes nothing.
C15_NormalizeIdempotent ==
    result.op = "_normalize_tarball_url"
    => LET x == result.src[1]
           y == result.out.val
       IN
       /\ result.out.kind = "return"
       /\ StartsWith(x, FILE_SCHEME) \/ StartsWith(x, HTTP_SCHEME) => y = x
       /\ ~(StartsWith(x, FILE_SCHEME) \/ StartsWith(x, HTTP_SCHEME))
          => y = FILE_SCHEME \o x
       /\ StartsWith(y, FILE_SCHEME) \/ StartsWith(y, HTTP_SCHEME)
       /\ Normalize(y) = y

C15_Witness ==
    /\ result.op = "_normalize_tarball_url"
    /\ result.src = <<SrcBare>>
    /\ result.out.val = FILE_SCHEME \o SrcBare
    /\ Normalize(result.out.val) = result.out.val

\* C20: the cache-fill is not guarded against concurrent callers.  From the
\* moment a caller has opened the cache file for writing, the file is at
\* the cache path although its body is not written, so the exists-test of
\* a second caller takes it as cached; and a second caller that skipped its
\* download and opened the entry while it was empty does not find a valid
\* repository.
C20_UnwrittenFileIsVisible ==
    \A i \in Callers :
        /\ race.pc[i] \in {"fetch", "write"} /\ race.linked[i]
           => Exists(fs, RacePath)
        /\ race.skipped[i] /\ race.saw[i] = "empty" /\ race.pc[i] = "done"
           => race.out[i] # Return(PyTrue)

\* the interleaving: c1 has created the cache file and holds the body it is
\* about to write, while c2 has seen the file as cached, skipped its own
\* download and read the empty entry
C20_Witness ==
    /\ race.pc["c1"] = "write"
    /\ race.linked["c1"]
    /\ race.body["c1"] \in Bodies
    /\ race.skipped["c2"]
    /\ race.saw["c2"] = "empty"
    /\ race.pc["c2"] \in {"remove", "done"}

====
